---- MODULE Spec2Model ----
(***************************************************************************)
(* The ChakaBNB service worker (src/sw.js): the install, fetch and         *)
(* activate listeners over the browser's CacheStorage.                     *)
(*                                                                         *)
(* A worker is identified by the number of the install run that created    *)
(* it; its CACHE_NAME is the version tag its script was deployed with      *)
(* (chakabnb-v1 is tag 1, chakabnb-v2 is tag 2, ...).  The cache storage   *)
(* is the list of generations in creation order, as caches.keys() and      *)
(* caches.match() see it.  Every captured response carries the identity    *)
(* of the capture (the install run or the interception that fetched it).   *)
(***************************************************************************)
EXTENDS Integers, Sequences, FiniteSets

\* ------------------------------------------------------------- bounds
MaxVersion == 2      \* version tags 1..MaxVersion are deployed
MaxInstalls == 2     \* install runs (worker registrations / updates)
MaxFetches == 2      \* fetch interceptions

Names == 1..MaxVersion
FetchIds == 1..MaxFetches

\* ------------------------------------------------------------- resources
\* src/sw.js:7-25, two representatives of the manifest: a same-origin
\* document and a cross-origin CDN script.
urlsToCache == {"/index.html", "https://cdn.tailwindcss.com"}

\* Resources outside the manifest, same-origin and cross-origin.
OtherUrls == {"/unknown.js", "https://cdn.example.com/lib.js"}

URLs == urlsToCache \cup OtherUrls

SameOrigin(url) == url \in {"/index.html", "/unknown.js"}

\* The request modes: a navigation, and a subresource request, taken as
\* cors (a no-cors request to another origin gets an opaque response of
\* status 0, which the handler treats as any other response that is not
\* 200).
Modes == {"navigate", "cors"}

\* The fetch events the worker gets.  The manifest's document is navigated
\* to; a same-origin resource outside the manifest is navigated to or loaded
\* as a subresource; a cross-origin resource is a subresource (a navigation
\* to another origin is not this worker's to intercept).
Requests ==
    {r \in [url : URLs, mode : Modes] :
        /\ r.mode = "navigate" => SameOrigin(r.url)
        /\ r.url = "/index.html" => r.mode = "navigate"}

\* ------------------------------------------------------------- responses
Statuses == {200, 404}

NoEntry == [status |-> 0, type |-> "none", by |-> "none", n |-> 0]
Undefined == [status |-> 0, type |-> "undefined", by |-> "none", n |-> 0]

Response(status, type, by, n) == [status |-> status, type |-> type, by |-> by, n |-> n]

IsResponse(v) == v.type \in {"basic", "cors"}

\* What fetch(request) can resolve with: the type follows from the origin
\* of the URL.
NetResponses(url, mode, by, n) ==
    IF SameOrigin(url)
    THEN {Response(s, "basic", by, n) : s \in Statuses}
    ELSE {Response(s, "cors", by, n) : s \in Statuses}

\* fetch(request) rejecting: the network is unreachable.
NetError == [status |-> 0, type |-> "error", by |-> "none", n |-> 0]

NetOutcomes(url, mode, by, n) == NetResponses(url, mode, by, n) \cup {NetError}

Ok(response) == response.status >= 200 /\ response.status <= 299

\* ------------------------------------------------------------- cache storage
EmptyCache == [u \in URLs |-> NoEntry]

Keys(cs) == {cs[i].name : i \in 1..Len(cs)}

Has(cs, name) == name \in Keys(cs)

\* caches.open(name): the generation is created when it does not exist.
Open(cs, name) ==
    IF Has(cs, name) THEN cs ELSE Append(cs, [name |-> name, entries |-> EmptyCache])

\* Mutant: the entry is stored under the offline page's key, not the
\* request's.
PutUnderOfflinePage(cs, name, url, response) ==
    [i \in 1..Len(cs) |->
        IF cs[i].name = name
        THEN [cs[i] EXCEPT !.entries["/index.html"] = response]
        ELSE cs[i]]

\* Mutant: an entry already stored under the request is kept; the first
\* writer wins.
PutKeepsExisting(cs, name, url, response) ==
    [i \in 1..Len(cs) |->
        IF cs[i].name = name
        THEN [cs[i] EXCEPT !.entries[url] = IF @ = NoEntry THEN response ELSE @]
        ELSE cs[i]]

\* cache.put(request, response) on the generation called name.
Put(cs, name, url, response) ==
    [i \in 1..Len(cs) |->
        IF cs[i].name = name
        THEN [cs[i] EXCEPT !.entries[url] = response]
        ELSE cs[i]]

Min(S) == CHOOSE x \in S : \A y \in S : x <= y

\* Mutant: only the newest generation is searched.
MatchIdxNewestOnly(cs, url) ==
    IF cs # <<>> /\ cs[Len(cs)].entries[url] # NoEntry THEN Len(cs) ELSE 0

\* caches.match(request): the generations are searched in creation order.
MatchIdx(cs, url) ==
    LET hits == {i \in 1..Len(cs) : cs[i].entries[url] # NoEntry}
    IN IF hits = {} THEN 0 ELSE Min(hits)

Match(cs, url) ==
    IF MatchIdx(cs, url) = 0 THEN Undefined ELSE cs[MatchIdx(cs, url)].entries[url]

MatchGen(cs, url) ==
    IF MatchIdx(cs, url) = 0 THEN 0 ELSE cs[MatchIdx(cs, url)].name

\* ------------------------------------------------------------- SecurityManager
\* src/js/seo-optimizer.js:558-862.  Strings are sequences of characters.
\* The characters of the class \w, \s and the control characters that
\* sanitizeInput removes that occur in the inputs below; "<x01>" and "<x7F>"
\* stand for the characters U+0001 and U+007F.
WordChars ==
    {"a", "c", "d", "e", "h", "i", "j", "l", "n", "o", "p", "r", "s", "t", "v", "x",
     "b", "1"}

SpaceChars == {" "}

ControlChars == {"<x01>", "<x7F>"}

\* The flag i: the patterns are matched without regard to case.
Lower(ch) ==
    CASE ch = "J" -> "j"
      [] ch = "E" -> "e"
      [] OTHER -> ch

Lit(ch) == [class |-> {ch}, min |-> 1, max |-> 1]

\* A pattern is a sequence of items: a character class with its quantifier.
\* These are the patterns of the constructor that a match in the inputs
\* below needs; the other nine need "<script", "<iframe", "<object",
\* "<embed", "<link", "<meta", "expression" or "data:", which no input
\* below contains, so that their test is always false with lastIndex 0.
Patterns ==
    [javascript |-> <<Lit("j"), Lit("a"), Lit("v"), Lit("a"), Lit("s"), Lit("c"),
                      Lit("r"), Lit("i"), Lit("p"), Lit("t"), Lit(":")>>,
     onEvent |-> <<Lit("o"), Lit("n"), [class |-> WordChars, min |-> 1, max |-> 99],
                   [class |-> SpaceChars, min |-> 0, max |-> 99], Lit("=")>>,
     eval |-> <<Lit("e"), Lit("v"), Lit("a"), Lit("l"),
                [class |-> SpaceChars, min |-> 0, max |-> 99], Lit("(")>>,
     vbscript |-> <<Lit("v"), Lit("b"), Lit("s"), Lit("c"), Lit("r"), Lit("i"),
                    Lit("p"), Lit("t"), Lit(":")>>]

\* this.xssPatterns and this.suspiciousPatterns, in the order of the loops.
xssPatterns == <<"javascript", "onEvent">>

suspiciousPatterns == <<"eval", "vbscript">>

PatternIds == {"javascript", "onEvent", "eval", "vbscript"}

\* The longest run of characters of class at position i of str (1-based).
RECURSIVE Run(_, _, _)
Run(class, str, i) ==
    IF i <= Len(str) /\ Lower(str[i]) \in class THEN 1 + Run(class, str, i + 1) ELSE 0

\* The items k.. of pattern matched at position i of str: the position
\* after the match, or 0 when there is none.  Quantifiers are greedy.
RECURSIVE MatchAt(_, _, _, _)
MatchAt(pattern, str, i, k) ==
    IF k > Len(pattern) THEN i
    ELSE LET item == pattern[k]
             run == Run(item.class, str, i)
             counts == {c \in item.min..(IF run < item.max THEN run ELSE item.max) :
                           MatchAt(pattern, str, i + c, k + 1) # 0}
         IN IF counts = {} THEN 0
            ELSE MatchAt(pattern, str, i + (CHOOSE c \in counts : \A d \in counts : d <= c),
                         k + 1)

\* RegExp.prototype.exec of a global pattern: the search starts at
\* lastIndex (0-based); the result is the new lastIndex, the 0-based
\* position after the first match found, or 0 when nothing matches.
ExecFrom(pattern, str, lastIndex) ==
    IF lastIndex > Len(str) THEN 0
    ELSE LET starts == {i \in (lastIndex + 1)..Len(str) : MatchAt(pattern, str, i, 1) # 0}
         IN IF starts = {} THEN 0
            ELSE MatchAt(pattern, str, CHOOSE i \in starts : \A j \in starts : i <= j, 1) - 1

\* src/js/seo-optimizer.js:596-609, the two loops of pattern.test: the
\* patterns of list from the k-th on are tested in turn against str, each
\* from its own lastIndex, up to the first that matches.
RECURSIVE TestInTurn(_, _, _, _)
TestInTurn(list, k, indexes, str) ==
    IF k > Len(list) THEN [detected |-> FALSE, indexes |-> indexes]
    ELSE LET found == ExecFrom(Patterns[list[k]], str, indexes[list[k]])
             after == [indexes EXCEPT ![list[k]] = found]
         IN IF found # 0 THEN [detected |-> TRUE, indexes |-> after]
            ELSE TestInTurn(list, k + 1, after, str)

\* src/js/seo-optimizer.js:590, the control characters are removed.
RECURSIVE RemoveControl(_)
RemoveControl(str) ==
    IF str = <<>> THEN <<>>
    ELSE IF Head(str) \in ControlChars THEN RemoveControl(Tail(str))
    ELSE <<Head(str)>> \o RemoveControl(Tail(str))

\* src/js/seo-optimizer.js:611-620, the HTML entity of a character.
Entity(ch) ==
    CASE ch = "&" -> <<"&", "a", "m", "p", ";">>
      [] ch = "<" -> <<"&", "l", "t", ";">>
      [] ch = ">" -> <<"&", "g", "t", ";">>
      [] ch = "\"" -> <<"&", "q", "u", "o", "t", ";">>
      [] ch = "'" -> <<"&", "#", "x", "2", "7", ";">>
      [] ch = "/" -> <<"&", "#", "x", "2", "F", ";">>
      [] OTHER -> <<ch>>

RECURSIVE Escape(_)
Escape(str) == IF str = <<>> THEN <<>> ELSE Entity(Head(str)) \o Escape(Tail(str))

\* String.prototype.trim
RECURSIVE Trim(_)
Trim(str) ==
    IF str = <<>> THEN <<>>
    ELSE IF Head(str) \in SpaceChars THEN Trim(Tail(str))
    ELSE IF str[Len(str)] \in SpaceChars THEN Trim(SubSeq(str, 1, Len(str) - 1))
    ELSE str

\* An input that is no string (typeof input is "number").
NotAString == <<"<number>">>

\* src/js/seo-optimizer.js:586-623, sanitizeInput(input, allowHtml) on an
\* instance whose patterns have the lastIndex values indexes: the string
\* returned and the lastIndex values left behind.
sanitizeInput(input, allowHtml, indexes) ==
    IF input = NotAString THEN [returned |-> <<>>, indexes |-> indexes]
    ELSE LET sanitized == RemoveControl(input)
             xss == TestInTurn(xssPatterns, 1, indexes, sanitized)
             suspicious == TestInTurn(suspiciousPatterns, 1, xss.indexes, sanitized)
         IN IF xss.detected THEN [returned |-> <<>>, indexes |-> xss.indexes]
            ELSE IF suspicious.detected
                 THEN [returned |-> <<>>, indexes |-> suspicious.indexes]
            ELSE [returned |-> Trim(IF allowHtml THEN sanitized ELSE Escape(sanitized)),
                  indexes |-> suspicious.indexes]

\* The inputs followed: "javascript:", "Javascript:x", "onload=",
\* "eval (1)", "eval(eval(", "vbscript:", U+0001 inside "javascript:",
\* " hi" with U+007F, "a<b", "hi", and a number.
Inputs ==
    {<<"j", "a", "v", "a", "s", "c", "r", "i", "p", "t", ":">>,
     <<"J", "a", "v", "a", "s", "c", "r", "i", "p", "t", ":", "x">>,
     <<"o", "n", "l", "o", "a", "d", "=">>,
     <<"e", "v", "a", "l", " ", "(", "1", ")">>,
     <<"e", "v", "a", "l", "(", "E", "v", "a", "l", "(">>,
     <<"v", "b", "s", "c", "r", "i", "p", "t", ":">>,
     <<"j", "a", "v", "a", "<x01>", "s", "c", "r", "i", "p", "t", ":">>,
     <<" ", "h", "i", "<x7F>">>,
     <<"a", "<", "b">>,
     <<"h", "i">>,
     NotAString}

\* ------------------------------------------------------------- rate limiting
\* src/js/seo-optimizer.js:814-861.  Time is counted in ticks of
\* Date.now(); MaxTime ticks and MaxRateCalls calls are followed, with the
\* arguments maxAttempts = MaxAttempts and windowMs = WindowMs.
MaxTime == 4

MaxRateCalls == 4

MaxAttempts == 2

WindowMs == 2

Times == 0..MaxTime

RateKeys == {"login", "booking"}

\* localStorage.getItem of an item that is not stored gives null.
NoItem == <<0 - 1>>

\* `rate_limit_${key}`
RateLimitKey(key) == <<"rate_limit_", key>>

StorageItems ==
    {RateLimitKey(key) : key \in RateKeys} \cup {<<key>> : key \in RateKeys}
        \cup {<<"error_logs">>}

\* attempts.filter(timestamp => now - timestamp < windowMs)
RECURSIVE InWindow(_, _, _)
InWindow(attempts, time, windowMs) ==
    IF attempts = <<>> THEN <<>>
    ELSE IF time - Head(attempts) < windowMs
         THEN <<Head(attempts)>> \o InWindow(Tail(attempts), time, windowMs)
    ELSE InWindow(Tail(attempts), time, windowMs)

\* Math.min(...attempts)
MinOf(attempts) ==
    CHOOSE t \in {attempts[i] : i \in 1..Len(attempts)} :
        \A i \in 1..Len(attempts) : t <= attempts[i]

\* resetTime: null
NoResetTime == 0 - 1

\* Mutant: the limit is compared with > , one attempt too many passes.
LimitReachedOneLate(attempts, maxAttempts) == Len(attempts) > maxAttempts

\* src/js/seo-optimizer.js:825, attempts.length >= maxAttempts
LimitReached(attempts, maxAttempts) == Len(attempts) >= maxAttempts

\* Mutant: a denied attempt is recorded as well.
DeniedStoreRecords(storage, item, attempts, time) ==
    [storage EXCEPT ![item] = Append(attempts, time)]

\* src/js/seo-optimizer.js:825-836, the storage is not written when the
\* call is denied.
DeniedStore(storage, item, attempts, time) == storage

\* src/js/seo-optimizer.js:814-852, checkRateLimit(key, maxAttempts,
\* windowMs) at time time on the storage storage; setItemThrows: the browser
\* refuses the write (QuotaExceededError).  The result and the storage left.
checkRateLimit(storage, key, maxAttempts, windowMs, time, setItemThrows) ==
    LET stored == storage[RateLimitKey(key)]
        attempts == InWindow(IF stored # NoItem THEN stored ELSE <<>>, time, windowMs)
        pushed == Append(attempts, time)
    IN IF LimitReached(attempts, maxAttempts)
       THEN [allowed |-> FALSE, remaining |-> 0,
             resetTime |-> MinOf(attempts) + windowMs,
             storage |-> DeniedStore(storage, RateLimitKey(key), attempts, time)]
       ELSE IF setItemThrows
            THEN [allowed |-> TRUE, remaining |-> maxAttempts,
                  resetTime |-> NoResetTime, storage |-> storage]
       ELSE [allowed |-> TRUE, remaining |-> maxAttempts - Len(pushed),
             resetTime |-> NoResetTime,
             storage |-> [storage EXCEPT ![RateLimitKey(key)] = pushed]]

\* Mutant: the item is removed under the key itself, without the prefix.
clearRateLimitNoPrefix(storage, key) == [storage EXCEPT ![<<key>>] = NoItem]

\* src/js/seo-optimizer.js:858-861, clearRateLimit(key)
clearRateLimit(storage, key) == [storage EXCEPT ![RateLimitKey(key)] = NoItem]

\* ------------------------------------------------------------- ErrorHandler
\* src/unnamed/part_001:313-360, the error log.  An errorLog entry is
\* identified by the number of its logError call, which stands for its
\* timestamp and content; MaxLogged calls are followed, and the browser may
\* refuse the write (QuotaExceededError) of the calls in RefusedWrites.
MaxErrorLogs == 50

MaxLogged == 52

RefusedWrites == {2, MaxErrorLogs + 1}

\* Mutant: the oldest MaxErrorLogs entries are kept.
KeepOldest(logs) ==
    IF Len(logs) > MaxErrorLogs THEN SubSeq(logs, 1, MaxErrorLogs) ELSE logs

\* src/unnamed/part_001:330-332, logs.splice(0, logs.length - 50)
KeepLast(logs) ==
    IF Len(logs) > MaxErrorLogs
    THEN SubSeq(logs, Len(logs) - MaxErrorLogs + 1, Len(logs))
    ELSE logs

\* src/unnamed/part_001:347-353, getErrorLogs()
getErrorLogs(storage) ==
    IF storage[<<"error_logs">>] = NoItem THEN <<>> ELSE storage[<<"error_logs">>]

\* src/unnamed/part_001:313-341, logError: the storage it leaves.
logError(storage, errorLog, setItemThrows) ==
    IF setItemThrows THEN storage
    ELSE [storage EXCEPT ![<<"error_logs">>] = KeepLast(Append(getErrorLogs(storage), errorLog))]

\* src/unnamed/part_001:358-360, clearErrorLogs()
clearErrorLogs(storage) == [storage EXCEPT ![<<"error_logs">>] = NoItem]

\* src/unnamed/part_001:146-206 and 285-307, the error notifications.
\* MaxNotifications showError calls and MaxRetries presses of a retry
\* button are followed.  The onRetry callback passed to the n-th showError
\* call is called n; 0 is null.
MaxNotifications == 3

MaxRetries == 3

NotificationIds == 1..MaxNotifications

\* A notification that showError has not created yet.  inDom: the element
\* is a child of #error-container; leaving: removeError has started its
\* removal; timer: the 8 s timer of showError has not fired yet.
NoNotification == [created |-> FALSE, retry |-> FALSE, inDom |-> FALSE,
                   leaving |-> FALSE, timer |-> FALSE]

VARIABLES
    caches,      \* the cache storage: generations in creation order
    installLog,  \* one record per install run: its CACHE_NAME and its result
    waiting,     \* the installed worker waiting to activate (0: none)
    active,      \* the active worker (0: none)
    fetches,     \* the fetch interceptions, by id
    keysAfterActivate,  \* caches.keys() as the last activation left it
    activating   \* the active worker's activate handler has not completed yet

VARIABLES
    lastIndex,     \* SecurityManager: the lastIndex of each pattern object
    sanitizeCall   \* the last sanitizeInput call: its arguments and its result

VARIABLES
    now,           \* Date.now()
    localStorage,  \* the items of window.localStorage
    rateHistory,   \* per key, what happened since its last clearRateLimit
    rateResult,    \* the last checkRateLimit or clearRateLimit call
    rateCalls      \* the number of calls made

VARIABLES
    errorsLogged,  \* ErrorHandler: the number of logError calls made
    logHistory     \* the entries written since the last clearErrorLogs

VARIABLES
    notifications,         \* the error notifications, by showError call
    currentRetryCallback,  \* window.currentRetryCallback
    invoked,               \* how often each onRetry callback was invoked
    lastRetry,             \* the last press of a retry button
    retries                \* the number of presses made

swVars == <<caches, installLog, waiting, active, fetches, keysAfterActivate, activating>>

sanitizeVars == <<lastIndex, sanitizeCall>>

rateVars == <<now, localStorage, rateHistory, rateResult, rateCalls>>

logVars == <<errorsLogged, logHistory>>

notifyVars == <<notifications, currentRetryCallback, invoked, lastRetry, retries>>

pageVars == <<sanitizeVars, rateVars, logVars, notifyVars>>

vars == <<swVars, pageVars>>

NoCall == [made |-> FALSE, input |-> NotAString, allowHtml |-> FALSE, returned |-> <<>>]

\* Nothing since the last clearRateLimit: granted holds the times of the
\* calls that returned allowed: true, failed tells that a write of the
\* attempt list was refused, cleared that clearRateLimit was the last call
\* and removed how many stored attempts it removed.
NoHistory == [granted |-> <<>>, failed |-> FALSE, cleared |-> FALSE, removed |-> 0]

NoRateCall ==
    [op |-> "none", key |-> "", at |-> 0, allowed |-> FALSE, remaining |-> 0,
     resetTime |-> NoResetTime, threw |-> FALSE, before |-> NoHistory]

\* The page's objects after construction: new SecurityManager().
PageInit ==
    /\ lastIndex = [p \in PatternIds |-> 0]
    /\ sanitizeCall = NoCall
    /\ now = 0
    /\ localStorage = [item \in StorageItems |-> NoItem]
    /\ rateHistory = [key \in RateKeys |-> NoHistory]
    /\ rateResult = NoRateCall
    /\ rateCalls = 0
    /\ errorsLogged = 0
    /\ logHistory = [written |-> <<>>, cleared |-> FALSE]
    /\ notifications = [n \in NotificationIds |-> NoNotification]
    /\ currentRetryCallback = 0
    /\ invoked = [n \in NotificationIds |-> 0]
    /\ lastRetry = [notification |-> 0, callback |-> 0, threw |-> FALSE]
    /\ retries = 0

CACHE_NAME(worker) == installLog[worker].name

IdleFetch ==
    [pc |-> "idle", url |-> "", mode |-> "", worker |-> 0, netCalls |-> 0,
     net |-> "none", how |-> "none", gen |-> 0,
     settled |-> "pending", value |-> Undefined, put |-> "none",
     sawStored |-> FALSE, cachedIndex |-> Undefined]

Init ==
    /\ caches = <<>>
    /\ installLog = <<>>
    /\ waiting = 0
    /\ active = 0
    /\ fetches = [id \in FetchIds |-> IdleFetch]
    /\ keysAfterActivate = {}
    /\ activating = FALSE
    /\ PageInit

\* ------------------------------------------------------------- install
\* The newest version tag deployed so far (0 before the first install).
Newest ==
    IF installLog = <<>> THEN 0
    ELSE CHOOSE m \in Names :
            /\ \E k \in 1..Len(installLog) : installLog[k].name = m
            /\ \A k \in 1..Len(installLog) : installLog[k].name <= m

\* A deployment keeps the version tag or bumps it by one; MaxInstalls
\* install runs are followed.  The browser runs the lifecycle events of a
\* registration one after the other: no install while an activation is in
\* progress.
Deployable ==
    IF Len(installLog) < MaxInstalls /\ ~activating
    THEN {m \in Names : m = Newest + 1 \/ (Newest > 0 /\ m = Newest)}
    ELSE {}

\* cache.addAll(urls) fetches every url with a default (cors) request.
AddAllFetches(run) ==
    {f \in [urlsToCache -> UNION {NetOutcomes(u, "cors", "install", run) : u \in urlsToCache}] :
        \A u \in urlsToCache : f[u] \in NetOutcomes(u, "cors", "install", run)}

\* cache.addAll rejects when a fetch rejects or a response is not ok.
AddAllOk(fetched) ==
    \A u \in urlsToCache : fetched[u] # NetError /\ Ok(fetched[u])

\* Mutant: every resource that was fetched is written, one by one.
AddAllOneByOne(cs, name, fetched) ==
    [i \in 1..Len(cs) |->
        IF cs[i].name = name
        THEN [cs[i] EXCEPT !.entries =
                [u \in URLs |->
                    IF u \in urlsToCache /\ fetched[u] # NetError /\ Ok(fetched[u])
                    THEN fetched[u] ELSE @[u]]]
        ELSE cs[i]]

\* Mutant: a resource the generation already holds is not written again.
AddAllIfAbsent(cs, name, fetched) ==
    IF AddAllOk(fetched)
    THEN [i \in 1..Len(cs) |->
            IF cs[i].name = name
            THEN [cs[i] EXCEPT !.entries =
                    [u \in URLs |->
                        IF u \in urlsToCache /\ @[u] = NoEntry THEN fetched[u] ELSE @[u]]]
            ELSE cs[i]]
    ELSE cs

\* Mutant: only the same-origin resources of the manifest are written.
AddAllSameOrigin(cs, name, fetched) ==
    IF AddAllOk(fetched)
    THEN [i \in 1..Len(cs) |->
            IF cs[i].name = name
            THEN [cs[i] EXCEPT !.entries =
                    [u \in URLs |->
                        IF u \in urlsToCache /\ SameOrigin(u) THEN fetched[u] ELSE @[u]]]
            ELSE cs[i]]
    ELSE cs

\* cache.addAll(urlsToCache): all the entries are written, or none is.
AddAll(cs, name, fetched) ==
    IF AddAllOk(fetched)
    THEN [i \in 1..Len(cs) |->
            IF cs[i].name = name
            THEN [cs[i] EXCEPT !.entries =
                    [u \in URLs |-> IF u \in urlsToCache THEN fetched[u] ELSE @[u]]]
            ELSE cs[i]]
    ELSE cs

\* src/sw.js:28-36, the install listener, for a worker deployed with the
\* version tag name; fetched is what the network answers to addAll.
Install(name, fetched) ==
    /\ name \in Deployable
    /\ caches' = AddAll(Open(caches, name), name, fetched)
    /\ installLog' = Append(installLog, [name |-> name, ok |-> AddAllOk(fetched)])
    /\ waiting' = IF AddAllOk(fetched) THEN Len(installLog) + 1 ELSE waiting
    /\ UNCHANGED <<active, fetches, keysAfterActivate, activating, pageVars>>

\* ------------------------------------------------------------- activate
\* Mutant: the comparison is the wrong way round.
ShouldDeleteSame(cacheName, current) == cacheName = current

\* src/sw.js:80, cacheName !== CACHE_NAME.
ShouldDelete(cacheName, current) == cacheName # current

\* Mutant: every generation is deleted and the current one opened anew.
DeleteOldAndClear(cs, current) ==
    IF \E i \in 1..Len(cs) : cs[i].name = current
    THEN <<[name |-> current, entries |-> EmptyCache]>>
    ELSE <<>>

\* caches.keys() and caches.delete(cacheName) for every name that differs.
DeleteOld(cs, current) ==
    SelectSeq(cs, LAMBDA c : ~ShouldDelete(c.name, current))

\* The worker has settled every respondWith promise it was given.
NoPendingEvents(worker) ==
    \A id \in FetchIds : fetches[id].worker = worker => fetches[id].pc # "net"

\* The browser makes the waiting worker the active one, once the active
\* worker has no pending events, and dispatches the activate event to it.
StartActivate ==
    /\ waiting # 0
    /\ ~activating
    /\ active # 0 => NoPendingEvents(active)
    /\ active' = waiting
    /\ waiting' = 0
    /\ activating' = TRUE
    /\ UNCHANGED <<caches, installLog, fetches, keysAfterActivate, pageVars>>

\* src/sw.js:75-88, the activate listener of the new active worker.
Activate ==
    /\ activating
    /\ caches' = DeleteOld(caches, CACHE_NAME(active))
    /\ fetches' = [id \in FetchIds |->
            IF /\ fetches[id].put = "stored"
               /\ ShouldDelete(CACHE_NAME(fetches[id].worker), CACHE_NAME(active))
            THEN [fetches[id] EXCEPT !.put = "evicted"]
            ELSE fetches[id]]
    /\ keysAfterActivate' = Keys(DeleteOld(caches, CACHE_NAME(active)))
    /\ activating' = FALSE
    /\ UNCHANGED <<installLog, waiting, active, pageVars>>

\* Mutant: the handler's promise is not given to event.waitUntil.
FetchHeldNever == FALSE

\* src/sw.js:76, event.waitUntil(...) in the activate listener: the browser
\* holds fetch events back until the handler's promise has settled.
FetchHeld == activating

\* ------------------------------------------------------------- fetch
\* Mutant: the test is the wrong way round, the usable responses are the
\* ones returned without a cache write.
UsableInverted(response) == response.status # 200 \/ response.type # "basic"

\* Mutant: the response status is not looked at.
UsableAnyStatus(response) == response.type = "basic"

\* Mutant: the response type is not looked at.
UsableAnyType(response) == ~(response.status # 200)

\* src/sw.js:50, the responses the handler stores (fetch() never resolves
\* with no response).
Usable(response) == ~(response.status # 200 \/ response.type # "basic")

\* Mutant: the lookup's promise is not returned.
CatchHandlerNoReturn(cs, mode) == Undefined

\* Mutant: the offline page is returned whatever the request mode is.
CatchHandlerAnyMode(cs, mode) == Match(cs, "/index.html")

\* src/sw.js:65-70, what the catch callback returns.
CatchHandler(cs, mode) ==
    IF mode = "navigate" THEN Match(cs, "/index.html") ELSE Undefined

\* event.respondWith(promise): the page gets the response the promise is
\* fulfilled with; a promise that rejects, or is fulfilled with something
\* that is no Response, gives the page a network error.
CallerOutcome(f) ==
    IF f.settled = "fulfilled" /\ IsResponse(f.value) THEN f.value ELSE NetError

\* Kept with an interception when it starts: has the cache write of an
\* earlier interception of the same resource completed, with no activation
\* deleting its generation since.
SawStored(url) ==
    \E other \in FetchIds : fetches[other].url = url /\ fetches[other].put = "stored"

\* Mutant: a hit is also written back to the generation CACHE_NAME.
FetchEventWritesBack(id, req) ==
    /\ active # 0
    /\ ~FetchHeld
    /\ fetches[id].pc = "idle"
    /\ \A other \in FetchIds : other < id => fetches[other].pc # "idle"
    /\ fetches' = [fetches EXCEPT ![id] =
            IF Match(caches, req.url) # Undefined
            THEN [IdleFetch EXCEPT !.pc = "done", !.url = req.url, !.mode = req.mode,
                                   !.worker = active, !.how = "hit",
                                   !.gen = MatchGen(caches, req.url),
                                   !.settled = "fulfilled",
                                   !.value = Match(caches, req.url),
                                   !.put = "pending",
                                   !.sawStored = SawStored(req.url)]
            ELSE [IdleFetch EXCEPT !.pc = "net", !.url = req.url, !.mode = req.mode,
                                   !.worker = active,
                                   !.sawStored = SawStored(req.url)]]
    /\ UNCHANGED <<caches, installLog, waiting, active, keysAfterActivate, activating, pageVars>>

\* src/sw.js:39-46, a fetch event reaches the active worker, which looks
\* the request up with caches.match and answers a hit at once.
FetchEvent(id, req) ==
    /\ active # 0
    /\ ~FetchHeld
    /\ fetches[id].pc = "idle"
    /\ \A other \in FetchIds : other < id => fetches[other].pc # "idle"
    /\ fetches' = [fetches EXCEPT ![id] =
            IF Match(caches, req.url) # Undefined
            THEN [IdleFetch EXCEPT !.pc = "done", !.url = req.url, !.mode = req.mode,
                                   !.worker = active, !.how = "hit",
                                   !.gen = MatchGen(caches, req.url),
                                   !.settled = "fulfilled",
                                   !.value = Match(caches, req.url),
                                   !.sawStored = SawStored(req.url)]
            ELSE [IdleFetch EXCEPT !.pc = "net", !.url = req.url, !.mode = req.mode,
                                   !.worker = active,
                                   !.sawStored = SawStored(req.url)]]
    /\ UNCHANGED <<caches, installLog, waiting, active, keysAfterActivate, activating, pageVars>>

\* src/sw.js:48-63, fetch(event.request) resolves: the response is
\* returned, and a usable one is cloned for a cache write nobody awaits.
NetworkResponds(id, response) ==
    /\ fetches[id].pc = "net"
    /\ response \in NetResponses(fetches[id].url, fetches[id].mode, "fetch", id)
    /\ fetches' = [fetches EXCEPT ![id] =
            [@ EXCEPT !.pc = "done", !.netCalls = @ + 1, !.net = "ok",
                      !.how = "network", !.settled = "fulfilled", !.value = response,
                      !.put = IF Usable(response) THEN "pending" ELSE "none"]]
    /\ UNCHANGED <<caches, installLog, waiting, active, keysAfterActivate, activating, pageVars>>

\* Mutant: the catch callback also writes the fallback it returns into the
\* cache, under the failed request.
NetworkFailsCachesFallback(id) ==
    /\ fetches[id].pc = "net"
    /\ fetches' = [fetches EXCEPT ![id] =
            [@ EXCEPT !.pc = "done", !.netCalls = @ + 1, !.net = "failed",
                      !.how = IF fetches[id].mode = "navigate"
                               THEN "fallback" ELSE "undefined",
                      !.gen = IF fetches[id].mode = "navigate"
                              THEN MatchGen(caches, "/index.html") ELSE 0,
                      !.settled = "fulfilled",
                      !.value = CatchHandler(caches, fetches[id].mode),
                      !.put = IF IsResponse(CatchHandler(caches, fetches[id].mode))
                              THEN "pending" ELSE "none",
                      !.cachedIndex = IF fetches[id].mode = "navigate"
                                      THEN Match(caches, "/index.html")
                                      ELSE Undefined]]
    /\ UNCHANGED <<caches, installLog, waiting, active, keysAfterActivate, activating, pageVars>>

\* Mutant: the catch callback fetches the request again, without end.
NetworkFailsRetries(id) ==
    /\ fetches[id].pc = "net"
    /\ fetches' = [fetches EXCEPT ![id].netCalls = 1 - @]
    /\ UNCHANGED <<caches, installLog, waiting, active, keysAfterActivate, activating, pageVars>>

\* src/sw.js:48 and 65-70, fetch(event.request) rejects and the catch
\* callback settles the promise given to respondWith.
NetworkFails(id) ==
    /\ fetches[id].pc = "net"
    /\ fetches' = [fetches EXCEPT ![id] =
            [@ EXCEPT !.pc = "done", !.netCalls = @ + 1, !.net = "failed",
                      !.how = IF fetches[id].mode = "navigate"
                               THEN "fallback" ELSE "undefined",
                      !.gen = IF fetches[id].mode = "navigate"
                              THEN MatchGen(caches, "/index.html") ELSE 0,
                      !.settled = "fulfilled",
                      !.value = CatchHandler(caches, fetches[id].mode),
                      !.cachedIndex = IF fetches[id].mode = "navigate"
                                      THEN Match(caches, "/index.html")
                                      ELSE Undefined]]
    /\ UNCHANGED <<caches, installLog, waiting, active, keysAfterActivate, activating, pageVars>>

\* src/sw.js:57-60, the cache write: caches.open(CACHE_NAME) and cache.put.
CachePut(id) ==
    /\ fetches[id].put = "pending"
    /\ caches' = Put(Open(caches, CACHE_NAME(fetches[id].worker)),
                     CACHE_NAME(fetches[id].worker), fetches[id].url, fetches[id].value)
    /\ fetches' = [fetches EXCEPT ![id].put = "stored"]
    /\ UNCHANGED <<installLog, waiting, active, keysAfterActivate, activating, pageVars>>

\* Mutant: the write is chained into the promise given to respondWith, so
\* its rejection reaches the catch callback.
CachePutFailsCaught(id) ==
    /\ fetches[id].put = "pending"
    /\ caches' = Open(caches, CACHE_NAME(fetches[id].worker))
    /\ fetches' = [fetches EXCEPT ![id] =
            [@ EXCEPT !.put = "failed",
                      !.how = IF fetches[id].mode = "navigate"
                               THEN "fallback" ELSE "undefined",
                      !.value = CatchHandler(caches, fetches[id].mode)]]
    /\ UNCHANGED <<installLog, waiting, active, keysAfterActivate, activating, pageVars>>

\* The generation is opened and cache.put rejects (quota, I/O); nothing
\* handles the rejection.
CachePutFails(id) ==
    /\ fetches[id].put = "pending"
    /\ caches' = Open(caches, CACHE_NAME(fetches[id].worker))
    /\ fetches' = [fetches EXCEPT ![id].put = "failed"]
    /\ UNCHANGED <<installLog, waiting, active, keysAfterActivate, activating, pageVars>>

\* The write is not under waitUntil: the browser may stop the worker, once
\* it has no pending events, before the write has run.
CachePutLost(id) ==
    /\ fetches[id].put = "pending"
    /\ NoPendingEvents(fetches[id].worker)
    /\ fetches' = [fetches EXCEPT ![id].put = "failed"]
    /\ UNCHANGED <<caches, installLog, waiting, active, keysAfterActivate, activating, pageVars>>

\* ------------------------------------------------------------- specification
InstallEvent ==
    \E name \in Deployable : \E fetched \in AddAllFetches(Len(installLog) + 1) :
        Install(name, fetched)

Intercept ==
    \E id \in FetchIds :
        /\ fetches[id].pc = "idle"
        /\ \E req \in Requests : FetchEvent(id, req)

NetworkAnswer ==
    \E id \in FetchIds :
        /\ fetches[id].pc = "net"
        /\ \E response \in NetResponses(fetches[id].url, fetches[id].mode, "fetch", id) :
                NetworkResponds(id, response)

NetworkFailure == \E id \in FetchIds : NetworkFails(id)

CacheWrite == \E id \in FetchIds : CachePut(id)

CacheWriteFailure == \E id \in FetchIds : CachePutFails(id)

CacheWriteLost == \E id \in FetchIds : CachePutLost(id)

Next ==
    \/ InstallEvent
    \/ StartActivate
    \/ Activate
    \/ Intercept
    \/ NetworkAnswer
    \/ NetworkFailure
    \/ CacheWrite
    \/ CacheWriteFailure
    \/ CacheWriteLost

Spec == Init /\ [][Next]_vars

\* fetch(event.request) of interception id settles: it resolves or rejects.
NetworkSettles(id) ==
    \/ \E response \in NetResponses(fetches[id].url, fetches[id].mode, "fetch", id) :
            NetworkResponds(id, response)
    \/ NetworkFails(id)

\* The network eventually answers or fails every fetch (caches.match is
\* answered within the step that starts the interception).
FairSpec == Spec /\ \A id \in FetchIds : WF_vars(NetworkSettles(id))

\* ------------------------------------------------------------- checkRateLimit
\* Date.now() advances.
Tick ==
    /\ now < MaxTime
    /\ now' = now + 1
    /\ UNCHANGED <<swVars, sanitizeVars, logVars, notifyVars, localStorage, rateHistory,
                   rateResult, rateCalls>>

\* src/js/seo-optimizer.js:814-852, a call checkRateLimit(key, MaxAttempts,
\* WindowMs).
CheckRateLimit(key, setItemThrows) ==
    LET result == checkRateLimit(localStorage, key, MaxAttempts, WindowMs, now, setItemThrows)
    IN /\ rateCalls < MaxRateCalls
       /\ rateCalls' = rateCalls + 1
       /\ localStorage' = result.storage
       /\ rateResult' = [op |-> "check", key |-> key, at |-> now,
                         allowed |-> result.allowed,
                         remaining |-> result.remaining, resetTime |-> result.resetTime,
                         threw |-> (setItemThrows /\ result.allowed),
                         before |-> rateHistory[key]]
       /\ rateHistory' = [rateHistory EXCEPT ![key] =
               [granted |-> IF result.allowed THEN Append(@.granted, now) ELSE @.granted,
                failed |-> @.failed \/ (setItemThrows /\ result.allowed),
                cleared |-> FALSE, removed |-> 0]]
       /\ UNCHANGED <<swVars, sanitizeVars, logVars, notifyVars, now>>

\* src/js/seo-optimizer.js:858-861, a call clearRateLimit(key).
ClearRateLimit(key) ==
    /\ rateCalls < MaxRateCalls
    /\ rateCalls' = rateCalls + 1
    /\ localStorage' = clearRateLimit(localStorage, key)
    /\ rateResult' = [NoRateCall EXCEPT !.op = "clear", !.key = key, !.at = now,
                                        !.before = rateHistory[key]]
    /\ rateHistory' = [rateHistory EXCEPT ![key] =
            [NoHistory EXCEPT !.cleared = TRUE,
                              !.removed = IF localStorage[RateLimitKey(key)] = NoItem THEN 0
                                          ELSE Len(localStorage[RateLimitKey(key)])]]
    /\ UNCHANGED <<swVars, sanitizeVars, logVars, notifyVars, now>>

CheckRateLimitCall ==
    \E key \in RateKeys : \E setItemThrows \in BOOLEAN : CheckRateLimit(key, setItemThrows)

ClearRateLimitCall == \E key \in RateKeys : ClearRateLimit(key)

RateNext == Tick \/ CheckRateLimitCall \/ ClearRateLimitCall

RateSpec == Init /\ [][RateNext]_vars

\* ------------------------------------------------------------- error log
\* src/unnamed/part_001:313-341, a call of logError.
LogError(setItemThrows) ==
    /\ errorsLogged < MaxLogged
    /\ setItemThrows => errorsLogged + 1 \in RefusedWrites
    /\ errorsLogged' = errorsLogged + 1
    /\ localStorage' = logError(localStorage, errorsLogged + 1, setItemThrows)
    /\ logHistory' = [written |-> IF setItemThrows THEN logHistory.written
                                  ELSE Append(logHistory.written, errorsLogged + 1),
                      cleared |-> FALSE]
    /\ UNCHANGED <<swVars, sanitizeVars, notifyVars, now, rateHistory, rateResult,
                   rateCalls>>

\* src/unnamed/part_001:358-360, a call of clearErrorLogs.
ClearErrorLogs ==
    /\ ~logHistory.cleared
    /\ localStorage' = clearErrorLogs(localStorage)
    /\ logHistory' = [written |-> <<>>, cleared |-> TRUE]
    /\ UNCHANGED <<swVars, sanitizeVars, notifyVars, now, rateHistory, rateResult,
                   rateCalls, errorsLogged>>

LogErrorCall == \E setItemThrows \in BOOLEAN : LogError(setItemThrows)

ErrorLogNext == LogErrorCall \/ ClearErrorLogs

ErrorLogSpec == Init /\ [][ErrorLogNext]_vars

\* ------------------------------------------------------------- notifications
\* src/unnamed/part_001:146-206, showError(error, onRetry): the n-th call,
\* with a retry callback or without.
ShowError(n, withRetry) ==
    /\ ~notifications[n].created
    /\ \A m \in NotificationIds : m < n => notifications[m].created
    /\ notifications' = [notifications EXCEPT ![n] =
            [created |-> TRUE, retry |-> withRetry, inDom |-> TRUE,
             leaving |-> FALSE, timer |-> TRUE]]
    /\ currentRetryCallback' = IF withRetry THEN n ELSE currentRetryCallback
    /\ UNCHANGED <<swVars, sanitizeVars, rateVars, logVars, invoked, lastRetry, retries>>

\* src/unnamed/part_001:162, 172, 178, a Dismiss button:
\* this.closest('.error-notification').remove()
Dismiss(n) ==
    /\ notifications[n].inDom
    /\ notifications' = [notifications EXCEPT ![n].inDom = FALSE]
    /\ UNCHANGED <<swVars, sanitizeVars, rateVars, logVars, currentRetryCallback, invoked,
                   lastRetry, retries>>

\* src/unnamed/part_001:285-295, removeError(element): nothing for an
\* element out of the DOM, else the removal starts.
removeError(notification) ==
    IF notification.inDom THEN [notification EXCEPT !.leaving = TRUE] ELSE notification

\* src/unnamed/part_001:200-202, the 8 s timer of showError fires.
AutoRemove(n) ==
    /\ notifications[n].timer
    /\ notifications' = [notifications EXCEPT ![n] = [removeError(@) EXCEPT !.timer = FALSE]]
    /\ UNCHANGED <<swVars, sanitizeVars, rateVars, logVars, currentRetryCallback, invoked,
                   lastRetry, retries>>

\* src/unnamed/part_001:289-293, the 300 ms timer of removeError fires.
FinishRemove(n) ==
    /\ notifications[n].leaving
    /\ notifications' = [notifications EXCEPT ![n].leaving = FALSE, ![n].inDom = FALSE]
    /\ UNCHANGED <<swVars, sanitizeVars, rateVars, logVars, currentRetryCallback, invoked,
                   lastRetry, retries>>

\* src/unnamed/part_001:300-307, retryAction(button) for the retry button
\* of notification n; throws: the callback invoked throws.
RetryAction(n, throws) ==
    /\ notifications[n].inDom /\ notifications[n].retry
    /\ retries < MaxRetries
    /\ retries' = retries + 1
    /\ throws => currentRetryCallback # 0
    /\ invoked' = IF currentRetryCallback # 0
                  THEN [invoked EXCEPT ![currentRetryCallback] = @ + 1]
                  ELSE invoked
    /\ lastRetry' = [notification |-> n, callback |-> currentRetryCallback, threw |-> throws]
    /\ currentRetryCallback' = IF throws THEN currentRetryCallback ELSE 0
    /\ notifications' = IF throws THEN notifications
                        ELSE [notifications EXCEPT ![n] = removeError(@)]
    /\ UNCHANGED <<swVars, sanitizeVars, rateVars, logVars>>

ShowErrorCall ==
    \E n \in NotificationIds : \E withRetry \in BOOLEAN : ShowError(n, withRetry)

DismissClick == \E n \in NotificationIds : Dismiss(n)

AutoRemoveTimer == \E n \in NotificationIds : AutoRemove(n)

FinishRemoveTimer == \E n \in NotificationIds : FinishRemove(n)

RetryClick == \E n \in NotificationIds : \E throws \in BOOLEAN : RetryAction(n, throws)

NotifyNext ==
    \/ ShowErrorCall
    \/ DismissClick
    \/ AutoRemoveTimer
    \/ FinishRemoveTimer
    \/ RetryClick

NotifySpec == Init /\ [][NotifyNext]_vars

\* ------------------------------------------------------------- sanitizeInput
\* src/js/seo-optimizer.js:586-623, a call of sanitizeInput on the one
\* SecurityManager instance of the page (window.SecurityManager).
SanitizeInput(input, allowHtml) ==
    /\ lastIndex' = sanitizeInput(input, allowHtml, lastIndex).indexes
    /\ sanitizeCall' = [made |-> TRUE, input |-> input, allowHtml |-> allowHtml,
                        returned |-> sanitizeInput(input, allowHtml, lastIndex).returned]
    /\ UNCHANGED <<swVars, rateVars, logVars, notifyVars>>

SanitizeNext ==
    \E input \in Inputs : \E allowHtml \in BOOLEAN : SanitizeInput(input, allowHtml)

SanitizeSpec == Init /\ [][SanitizeNext]_vars

\* ------------------------------------------------------------- properties
Started(id) == fetches[id].pc # "idle"

Entries == {caches[i].entries[u] : i \in 1..Len(caches), u \in URLs} \ {NoEntry}

\* An earlier interception of the resource has returned a usable network
\* response.
SawFetched(url) ==
    \E other \in FetchIds :
        /\ fetches[other].url = url
        /\ fetches[other].pc = "done"
        /\ fetches[other].net = "ok"
        /\ Usable(fetches[other].value)

\* C1: once a worker's install has succeeded, an interception of a manifest
\* resource is answered from the cache and makes no network fetch.
C1_ManifestIsCacheHit ==
    \A id \in FetchIds :
        (Started(id) /\ installLog[fetches[id].worker].ok /\ fetches[id].url \in urlsToCache)
        => /\ fetches[id].pc = "done"
           /\ fetches[id].how = "hit"
           /\ fetches[id].netCalls = 0
           /\ IsResponse(CallerOutcome(fetches[id]))

C1_Witness ==
    \E id \in FetchIds :
        /\ fetches[id].url \in urlsToCache
        /\ ~SameOrigin(fetches[id].url)
        /\ fetches[id].how = "hit"
        /\ CACHE_NAME(fetches[id].worker) > 1

\* C2: the first interception of a resource that is neither in the manifest
\* nor cached makes exactly one network fetch, and once it has returned a
\* usable response any later interception of that resource is a cache hit
\* with no network fetch.
C2_SecondInterceptionHits ==
    [][\A id \in FetchIds :
          /\ (fetches[id].pc = "idle" /\ fetches'[id].pc # "idle"
                /\ SawFetched(fetches'[id].url))
             => (fetches'[id].how = "hit" /\ fetches'[id].netCalls = 0)
          /\ (fetches[id].pc = "net" /\ fetches'[id].pc = "done")
             => fetches'[id].netCalls = 1]_vars

\* C2 as amended: the first interception makes exactly one network fetch,
\* and an interception that starts once the cache write of an earlier one
\* has completed, with no activation deleting that generation since, is a
\* cache hit with no network fetch.
C2_HitOnceStored ==
    \A id \in FetchIds :
        /\ (fetches[id].pc = "net") => fetches[id].netCalls = 0
        /\ (fetches[id].pc = "done" /\ fetches[id].how # "hit") => fetches[id].netCalls = 1
        /\ (Started(id) /\ fetches[id].sawStored)
           => (fetches[id].how = "hit" /\ fetches[id].netCalls = 0)

C2_Witness ==
    \E first, second \in FetchIds :
        /\ fetches[first].url \notin urlsToCache
        /\ fetches[first].how = "network"
        /\ fetches[first].netCalls = 1
        /\ fetches[second].url = fetches[first].url
        /\ fetches[second].sawStored
        /\ fetches[second].how = "hit"

\* C3: an install in which a manifest fetch fails fails as a whole: its
\* worker is never installed, and its generation holds no entry of that run.
C3_FailedInstallStoresNothing ==
    \A run \in 1..Len(installLog) :
        ~installLog[run].ok
        => /\ run \notin {waiting, active}
           /\ \A e \in Entries : ~(e.by = "install" /\ e.n = run)

C3_Witness ==
    \E run \in 1..Len(installLog) :
        /\ ~installLog[run].ok
        /\ \E i \in 1..Len(caches) :
              caches[i].name = installLog[run].name /\ caches[i].entries = EmptyCache

\* C4: when the activation of a version has completed, the stored
\* generations are exactly the one generation of that version.
C4_ActivationLeavesOneGeneration ==
    (active # 0 /\ ~activating) => keysAfterActivate = {CACHE_NAME(active)}

C4_Witness ==
    /\ active # 0
    /\ ~activating
    /\ keysAfterActivate = {CACHE_NAME(active)}
    /\ \E id \in FetchIds :
          /\ Started(id)
          /\ CACHE_NAME(fetches[id].worker) = CACHE_NAME(active) - 1

\* C5: once a version has been activated, no generation of an older version
\* is stored in any later state (no later cache write brings one back).
C5_NoOldGenerationLater ==
    (active # 0 /\ ~activating) => \A name \in Keys(caches) : name >= CACHE_NAME(active)

\* C6: a navigation that misses the cache and whose network fetch fails is
\* answered with the cached /index.html, when there is one.
C6_NavigationFallback ==
    \A id \in FetchIds :
        (/\ fetches[id].net = "failed"
         /\ fetches[id].mode = "navigate"
         /\ fetches[id].cachedIndex # Undefined)
        => /\ fetches[id].pc = "done"
           /\ CallerOutcome(fetches[id]) = fetches[id].cachedIndex

C6_Witness ==
    \E id \in FetchIds :
        /\ fetches[id].net = "failed"
        /\ fetches[id].mode = "navigate"
        /\ fetches[id].how = "fallback"
        /\ fetches[id].value.by = "install"

\* C7: a request that is no navigation, misses the cache and whose network
\* fetch fails delivers no response to the page: the page gets a failure.
C7_NoSyntheticSuccess ==
    \A id \in FetchIds :
        (fetches[id].net = "failed" /\ fetches[id].mode # "navigate")
        => /\ fetches[id].pc = "done"
           /\ ~IsResponse(CallerOutcome(fetches[id]))

C7_Witness ==
    \E id \in FetchIds :
        /\ fetches[id].net = "failed"
        /\ fetches[id].mode = "cors"
        /\ fetches[id].how = "undefined"
        /\ Match(caches, "/index.html") # Undefined

\* C8: for such a request the handler passes the network failure on: the
\* promise given to respondWith rejects, it is not fulfilled with an
\* undefined result.
C8_FailurePropagatedUnmodified ==
    \A id \in FetchIds :
        (fetches[id].net = "failed" /\ fetches[id].mode # "navigate")
        => fetches[id].settled = "rejected"

\* C9: every stored entry was captured from a response with a success
\* status and of type basic.
C9_EntriesAreBasic ==
    \A e \in Entries : Ok(e) /\ e.type = "basic"

\* C9 as amended: an entry written by a fetch interception was captured
\* from a response of status 200 and type basic; an entry written by
\* install was captured from a response with a success status, of type
\* basic for a same-origin manifest resource and cors for a CDN one.
C9_EntriesByWriter ==
    \A i \in 1..Len(caches) : \A u \in URLs :
        LET e == caches[i].entries[u] IN
        /\ e.by = "fetch" => (e.status = 200 /\ e.type = "basic")
        /\ e.by = "install"
           => (Ok(e) /\ e.type = (IF SameOrigin(u) THEN "basic" ELSE "cors"))

C9_Witness ==
    /\ \E e \in Entries : e.by = "fetch"
    /\ \E e \in Entries : e.by = "install" /\ e.type = "cors"

\* C10: a lookup consults only the generation named CACHE_NAME of the
\* handling worker: a hit never comes from another generation.
C10_LookupInCurrentGeneration ==
    \A id \in FetchIds :
        fetches[id].how = "hit" => fetches[id].gen = CACHE_NAME(fetches[id].worker)

\* The response v is a capture of the resource url: what an install run
\* fetched for that manifest resource, or what an interception of that
\* resource got from the network.
CapturedFor(v, url) ==
    \/ /\ v.by = "install"
       /\ url \in urlsToCache
       /\ v.n \in 1..Len(installLog)
       /\ v \in NetResponses(url, "cors", "install", v.n)
    \/ /\ v.by = "fetch"
       /\ v.n \in FetchIds
       /\ fetches[v.n].url = url
       /\ fetches[v.n].net = "ok"
       /\ fetches[v.n].value = v

\* C11: on a cache hit the page gets exactly a response stored for that
\* request, and no network fetch is made.
C11_HitReturnsStored ==
    \A id \in FetchIds :
        fetches[id].how = "hit"
        => /\ fetches[id].netCalls = 0
           /\ fetches[id].net = "none"
           /\ fetches[id].pc = "done"
           /\ CallerOutcome(fetches[id]) = fetches[id].value
           /\ CapturedFor(fetches[id].value, fetches[id].url)

C11_Witness ==
    \E id \in FetchIds :
        /\ fetches[id].how = "hit"
        /\ fetches[id].value.by = "fetch"
        /\ fetches[id].value.n # id

\* The network response of interception id was status 200, type basic.
GotUsable(id) ==
    /\ fetches[id].net = "ok"
    /\ fetches[id].value.status = 200
    /\ fetches[id].value.type = "basic"

\* The generation CACHE_NAME of interception id's worker holds, under the
\* request's key, the response of interception w.
StoredCopyOf(id, w) ==
    \E i \in 1..Len(caches) :
        /\ caches[i].name = CACHE_NAME(fetches[id].worker)
        /\ caches[i].entries[fetches[id].url] = fetches[w].value

\* C12: on a miss with a usable network response the page gets that
\* response without waiting for the cache write, and a copy of it is
\* eventually stored: the write never ends without having stored it.
C12_CopyEventuallyStored ==
    \A id \in FetchIds :
        GotUsable(id)
        => /\ CallerOutcome(fetches[id]) = fetches[id].value
           /\ fetches[id].put \in {"pending", "stored", "evicted"}

\* C12 as amended: the page gets the original network response without
\* waiting for the cache write, a write is started, and when that write
\* completes the generation CACHE_NAME holds a copy under the request's key
\* (until a racing interception of the same request overwrites it or an
\* activation deletes the generation); the write may also fail or be lost.
C12_CopyStoredWhenWriteCompletes ==
    \A id \in FetchIds :
        GotUsable(id)
        => /\ fetches[id].pc = "done"
           /\ CallerOutcome(fetches[id]) = fetches[id].value
           /\ fetches[id].value.by = "fetch" /\ fetches[id].value.n = id
           /\ fetches[id].put # "none"
           /\ fetches[id].put = "stored"
              => \E w \in FetchIds :
                    /\ fetches[w].url = fetches[id].url
                    /\ fetches[w].put = "stored"
                    /\ CACHE_NAME(fetches[w].worker) = CACHE_NAME(fetches[id].worker)
                    /\ StoredCopyOf(id, w)

C12_Witness ==
    \E id \in FetchIds :
        /\ GotUsable(id)
        /\ fetches[id].put = "stored"
        /\ StoredCopyOf(id, id)

\* C13: when the cache write after a successful network fetch fails, the
\* page still gets the fetched response: the interception is neither a
\* failure nor a fallback.
C13_WriteFailureKeepsResponse ==
    \A id \in FetchIds :
        fetches[id].put = "failed"
        => /\ fetches[id].net = "ok"
           /\ fetches[id].how = "network"
           /\ fetches[id].settled = "fulfilled"
           /\ fetches[id].value \in NetResponses(fetches[id].url, fetches[id].mode, "fetch", id)
           /\ CallerOutcome(fetches[id]) = fetches[id].value

C13_Witness ==
    \E id \in FetchIds :
        /\ fetches[id].put = "failed"
        /\ fetches[id].mode = "navigate"
        /\ Match(caches, "/index.html") # Undefined
        /\ CallerOutcome(fetches[id]) # Match(caches, "/index.html")

\* C14: while the deletion pass of an activation is running no interception
\* is being served: none is in flight and none has been answered by the
\* worker that is activating, so its first fetch comes after the pass.
C14_NoFetchDuringDeletion ==
    activating
    => \A id \in FetchIds :
          /\ fetches[id].pc \in {"idle", "done"}
          /\ fetches[id].worker # active

C14_Witness ==
    \E id \in FetchIds :
        /\ ~activating
        /\ fetches[id].worker = active
        /\ fetches[id].how = "hit"
        /\ CACHE_NAME(active) # CACHE_NAME(1)
        /\ keysAfterActivate = {CACHE_NAME(active)}

\* The generation called name holds every manifest entry.
InstallComplete(cs, name) ==
    \E i \in 1..Len(cs) :
        /\ cs[i].name = name
        /\ \A url \in urlsToCache : cs[i].entries[url] # NoEntry

\* C15: an interception is answered from a generation (a hit, or the
\* offline fallback) only when that generation holds all manifest entries.
C15_AnsweredFromInstalledGeneration ==
    [][\A id \in FetchIds :
          (fetches[id].how = "none" /\ fetches'[id].how \in {"hit", "fallback"}
             /\ IsResponse(fetches'[id].value))
          => InstallComplete(caches, fetches'[id].gen)]_vars

\* The successful install runs made with the version tag name.
OkRuns(name) ==
    {run \in 1..Len(installLog) : installLog[run].name = name /\ installLog[run].ok}

Max(S) == CHOOSE x \in S : \A y \in S : x >= y

\* C16: install runs repeated with the same CACHE_NAME and manifest leave
\* the generation as a single run does: under every manifest identifier
\* there is one entry, the capture of one and the same run (the last
\* successful one).
C16_InstallIdempotent ==
    \A i \in 1..Len(caches) :
        \/ \A url \in urlsToCache : caches[i].entries[url] = NoEntry
        \/ /\ OkRuns(caches[i].name) # {}
           /\ \A url \in urlsToCache :
                 /\ caches[i].entries[url].by = "install"
                 /\ caches[i].entries[url].n = Max(OkRuns(caches[i].name))
                 /\ caches[i].entries[url]
                       \in NetResponses(url, "cors", "install", Max(OkRuns(caches[i].name)))

C16_Witness ==
    \E i \in 1..Len(caches) :
        /\ Cardinality(OkRuns(caches[i].name)) = 2
        /\ \A url \in urlsToCache : caches[i].entries[url].n = Max(OkRuns(caches[i].name))

\* C17: an interception whose network fetch fails stores nothing: it has
\* no cache write, pending or done, and no generation holds an entry
\* written for it, whether the request is a navigation or not.
C17_FailedFetchStoresNothing ==
    \A id \in FetchIds :
        fetches[id].net = "failed"
        => /\ fetches[id].put = "none"
           /\ \A e \in Entries : ~(e.by = "fetch" /\ e.n = id)
           /\ \A i \in 1..Len(caches) :
                 caches[i].entries[fetches[id].url] # NoEntry
                 => \E w \in FetchIds :
                       /\ w # id
                       /\ fetches[w].url = fetches[id].url
                       /\ caches[i].entries[fetches[id].url] = fetches[w].value

C17_Witness ==
    \E id, other \in FetchIds :
        /\ fetches[id].net = "failed" /\ fetches[id].how = "fallback"
        /\ IsResponse(fetches[id].value)
        /\ fetches[other].net = "failed" /\ fetches[other].mode # "navigate"

\* C18: when interceptions of the same resource race, each cache write
\* that completes leaves under the key, in its worker's generation, the
\* whole response that interception captured (the last writer wins), and
\* an entry written by an interception is always the complete capture of
\* one interception of that resource.
C18_LastWriterWholeResponse ==
    [][/\ \A id \in FetchIds :
             (fetches[id].put = "pending" /\ fetches'[id].put = "stored")
             => \E i \in 1..Len(caches') :
                   /\ caches'[i].name = CACHE_NAME(fetches[id].worker)
                   /\ caches'[i].entries[fetches[id].url] = fetches[id].value
       /\ \A i \in 1..Len(caches') : \A url \in URLs :
             (caches'[i].entries[url] # NoEntry /\ caches'[i].entries[url].by = "fetch")
             => \E w \in FetchIds :
                   /\ fetches'[w].url = url
                   /\ fetches'[w].net = "ok"
                   /\ fetches'[w].put \in {"stored", "evicted"}
                   /\ fetches'[w].value = caches'[i].entries[url]]_vars

C18_Witness ==
    \E id, other \in FetchIds :
        /\ id < other
        /\ fetches[id].url = fetches[other].url
        /\ fetches[id].how = "network" /\ fetches[other].how = "network"
        /\ fetches[id].worker = fetches[other].worker
        /\ fetches[id].put = "stored" /\ fetches[other].put = "stored"
        /\ StoredCopyOf(id, id)

\* C19: an interception that is a cache hit does not modify the cache
\* storage: the step that answers it leaves the generations and their
\* entries as they were, and the interception never has a cache write.
C19_HitLeavesStorageUnchanged ==
    [][\A id \in FetchIds :
          /\ (fetches[id].pc = "idle" /\ fetches'[id].how = "hit")
             => (caches' = caches /\ fetches'[id].put = "none")
          /\ fetches[id].how = "hit"
             => (fetches'[id] = fetches[id] /\ fetches[id].put = "none")]_vars

C19_Witness ==
    \E id \in FetchIds :
        /\ fetches[id].how = "hit"
        /\ fetches[id].url \notin urlsToCache
        /\ \A other \in FetchIds : fetches[other].put \notin {"pending"}

\* C20: the activation handler deletes every stored generation whose name
\* differs from CACHE_NAME and leaves the generation named CACHE_NAME as
\* it was, with all its entries.
C20_ActivationDeletesOnlyOthers ==
    [][(activating /\ ~activating')
       => /\ \A j \in 1..Len(caches') : caches'[j].name = CACHE_NAME(active)
          /\ \A i \in 1..Len(caches) :
                caches[i].name = CACHE_NAME(active)
                => (Len(caches') = 1 /\ caches'[1] = caches[i])
          /\ (\A i \in 1..Len(caches) : caches[i].name # CACHE_NAME(active))
             => caches' = <<>>]_vars

C20_Witness ==
    /\ active # 0 /\ ~activating
    /\ installLog[1].ok /\ installLog[1].name # CACHE_NAME(active)
    /\ Len(caches) = 1 /\ InstallComplete(caches, CACHE_NAME(active))
    /\ \A id \in FetchIds : fetches[id].pc = "idle"

\* The four ways an interception ends, as the page sees them.
EndsAsHit(f) == f.how = "hit" /\ f.net = "none" /\ IsResponse(CallerOutcome(f))

EndsAsNetworkResponse(f) ==
    f.how = "network" /\ f.net = "ok" /\ CallerOutcome(f) = f.value /\ f.value.by = "fetch"

EndsAsFallback(f) ==
    /\ f.how = "fallback" /\ f.net = "failed"
    /\ IsResponse(CallerOutcome(f)) /\ CallerOutcome(f) = f.cachedIndex

EndsAsFailure(f) == f.net = "failed" /\ CallerOutcome(f) = NetError

HowEnded(f) ==
    {o \in {"hit", "network", "fallback", "failure"} :
        \/ o = "hit" /\ EndsAsHit(f)
        \/ o = "network" /\ EndsAsNetworkResponse(f)
        \/ o = "fallback" /\ EndsAsFallback(f)
        \/ o = "failure" /\ EndsAsFailure(f)}

\* C21: when the network eventually answers or fails, every interception
\* ends; it ends in exactly one of cache hit, network response, navigation
\* fallback or failure, and once ended its request is settled for good.
C21_InterceptionEnds ==
    /\ \A id \in FetchIds : (fetches[id].pc = "net") ~> (fetches[id].pc = "done")
    /\ [](\A id \in FetchIds :
             /\ fetches[id].pc = "done" => Cardinality(HowEnded(fetches[id])) = 1
             /\ fetches[id].pc # "done" => fetches[id].settled = "pending")
    /\ [][\A id \in FetchIds :
             fetches[id].pc = "done"
             => /\ fetches'[id].pc = "done"
                /\ fetches'[id].settled = fetches[id].settled
                /\ fetches'[id].value = fetches[id].value
                /\ fetches'[id].netCalls = fetches[id].netCalls]_vars

C21_Witness ==
    \E id, other \in FetchIds :
        /\ fetches[id].pc = "done" /\ HowEnded(fetches[id]) = {"fallback"}
        /\ fetches[other].pc = "done" /\ HowEnded(fetches[other]) = {"failure"}

\* C29: on a miss whose network response is not usable (status other than
\* 200, or type other than basic) the page gets that response unchanged
\* and the interception writes nothing to any generation.
C29_UnusableResponseNotStored ==
    \A id \in FetchIds :
        (fetches[id].net = "ok"
            /\ (fetches[id].value.status # 200 \/ fetches[id].value.type # "basic"))
        => /\ fetches[id].how = "network"
           /\ fetches[id].value \in NetResponses(fetches[id].url, fetches[id].mode, "fetch", id)
           /\ CallerOutcome(fetches[id]) = fetches[id].value
           /\ fetches[id].put = "none"
           /\ \A e \in Entries : ~(e.by = "fetch" /\ e.n = id)

C29_Witness ==
    \E id, other \in FetchIds :
        /\ fetches[id].net = "ok" /\ fetches[id].value.status = 404
        /\ fetches[id].value.type = "basic"
        /\ fetches[other].net = "ok" /\ fetches[other].value.status = 200
        /\ fetches[other].value.type # "basic"

\* The string contains a match of one of the patterns.
ContainsMatch(input) ==
    /\ input # NotAString
    /\ \E p \in PatternIds : ExecFrom(Patterns[p], input, 0) # 0

\* C22: sanitizeInput returns the empty string for every input that
\* contains a match of one of the patterns, whatever calls were made
\* before: the result is the one a new instance gives for that input.
C22_MatchingInputBlocked ==
    sanitizeCall.made
    => /\ ContainsMatch(sanitizeCall.input) => sanitizeCall.returned = <<>>
       /\ sanitizeCall.returned
            = sanitizeInput(sanitizeCall.input, sanitizeCall.allowHtml,
                            [p \in PatternIds |-> 0]).returned

\* The calls among granted (times of calls that returned allowed: true)
\* that lie in the window of WindowMs ticks ending at time.
GrantedInWindow(granted, time) ==
    {i \in 1..Len(granted) : time - WindowMs < granted[i] /\ granted[i] <= time}

\* C23: for a key whose attempt list was always written (storage working),
\* since its last clearRateLimit: no window of WindowMs ticks holds more
\* than MaxAttempts calls that returned allowed: true; a call is denied,
\* with remaining 0, exactly when MaxAttempts allowed calls lie in the
\* window ending at the call, and the denial lasts until the oldest of them
\* is WindowMs old.
C23_AtMostMaxAttemptsPerWindow ==
    /\ \A key \in RateKeys :
          ~rateHistory[key].failed
          => \A t \in Times :
                Cardinality(GrantedInWindow(rateHistory[key].granted, t)) <= MaxAttempts
    /\ (rateResult.op = "check" /\ ~rateHistory[rateResult.key].failed)
       => LET inWindow == GrantedInWindow(rateResult.before.granted, rateResult.at)
          IN /\ rateResult.allowed <=> Cardinality(inWindow) < MaxAttempts
             /\ rateResult.allowed
                => rateResult.remaining = MaxAttempts - Cardinality(inWindow) - 1
             /\ ~rateResult.allowed
                => /\ rateResult.remaining = 0
                   /\ \A i \in inWindow :
                         rateResult.before.granted[i] + WindowMs >= rateResult.resetTime
                   /\ \E i \in inWindow :
                         rateResult.before.granted[i] + WindowMs = rateResult.resetTime
                   /\ rateResult.resetTime > rateResult.at

C23_Witness ==
    /\ rateResult.op = "check" /\ ~rateResult.allowed
    /\ ~rateHistory[rateResult.key].failed
    /\ Len(rateHistory[rateResult.key].granted) > MaxAttempts

\* C24: a checkRateLimit call that returns allowed: false leaves the
\* stored attempt list of its key as it was, and a checkRateLimit call
\* changes no item but the one of its key.
C24_DeniedCallStoresNothing ==
    [][(rateCalls' = rateCalls + 1 /\ rateResult'.op = "check")
       => /\ ~rateResult'.allowed => localStorage' = localStorage
          /\ \A item \in StorageItems :
                item # RateLimitKey(rateResult'.key)
                => localStorage'[item] = localStorage[item]]_vars

C24_Witness ==
    /\ rateResult.op = "check" /\ ~rateResult.allowed
    /\ \E key \in RateKeys :
          key # rateResult.key /\ localStorage[RateLimitKey(key)] # NoItem

\* C25: the checkRateLimit call that follows clearRateLimit of its key
\* returns allowed: true with remaining MaxAttempts - 1, whatever was
\* recorded before the clear.
C25_AllowedAfterClear ==
    (rateResult.op = "check" /\ rateResult.before.cleared)
    => (rateResult.allowed /\ rateResult.remaining = MaxAttempts - 1)

\* C25 as amended: the call that follows clearRateLimit of its key returns
\* allowed: true; remaining is MaxAttempts - 1 and the attempt is the only
\* one stored when the attempt list can be written, and remaining is
\* MaxAttempts, with nothing stored, when the write is refused.
C25_AllowedAfterClearStorageWorking ==
    (rateResult.op = "check" /\ rateResult.before.cleared)
    => /\ rateResult.allowed
       /\ ~rateResult.threw
          => /\ rateResult.remaining = MaxAttempts - 1
             /\ localStorage[RateLimitKey(rateResult.key)] = <<rateResult.at>>
       /\ rateResult.threw
          => /\ rateResult.remaining = MaxAttempts
             /\ localStorage[RateLimitKey(rateResult.key)] = NoItem

C25_Witness ==
    /\ rateResult.op = "check" /\ rateResult.before.cleared
    /\ rateResult.before.removed = MaxAttempts
    /\ ~rateResult.threw /\ rateResult.remaining = MaxAttempts - 1

\* The last MaxErrorLogs elements of a sequence.
LastOf(seq) ==
    [i \in 1..(IF Len(seq) < MaxErrorLogs THEN Len(seq) ELSE MaxErrorLogs) |->
        seq[i + (IF Len(seq) < MaxErrorLogs THEN 0 ELSE Len(seq) - MaxErrorLogs)]]

C27_RetryInvokesOwnCallback ==
    lastRetry.notification # 0 => lastRetry.callback = lastRetry.notification

\* C28: each onRetry callback passed to showError is invoked at most once.
C28_CallbackInvokedAtMostOnce ==
    \A n \in NotificationIds : invoked[n] <= 1

====
